---- MODULE Spec2Model ----
(***************************************************************************)
(* Model of src/src/extension/odbc.rs: the column metadata resolver        *)
(* (TryFrom<&OdbcColumn> for BufferDescription), the buffer materializer   *)
(* (Convert<Vec<OdbcColumnItem>> for AnyColumnView) and the calendar       *)
(* conversions (TryConvert for Date, Time, (Time, u32) and Timestamp).     *)
(*                                                                         *)
(* One behaviour of the model is one call: Init is the state before the    *)
(* call, a calendar or resolver call is one step, and convert is a loop    *)
(* over the rows of the view that ends in a return or in a panic.          *)
(***************************************************************************)
EXTENDS Integers, Sequences, FiniteSets, TLC

VARIABLES pc, op, arg, result, buffer, idx, large_dates

vars == <<pc, op, arg, result, buffer, idx, large_dates>>

(***************************************************************************)
(* Option<T> and Result<T, E>.                                             *)
(***************************************************************************)
None == <<>>
Some(x) == <<x>>
IsSome(o) == Len(o) = 1
Unwrap(o) == o[1]

Ok(v) == [ok |-> TRUE, val |-> v]
Err(e) == [ok |-> FALSE, err |-> e]

(***************************************************************************)
(* Integer casts of the source: `x as u8` keeps the low eight bits of an   *)
(* u16, `x as i32` of an i16 keeps the value.                              *)
(***************************************************************************)
AsU8(x) == x % 256
AsI32(x) == x

(***************************************************************************)
(* The `time` crate, as the conversions call it.                           *)
(***************************************************************************)
ComponentRange(name, minimum, maximum, value, conditional) ==
    [name |-> name, minimum |-> minimum, maximum |-> maximum,
     value |-> value, conditional_range |-> conditional]

\* time::Date::MIN.year() / MAX.year(): +-9999, or +-999999 in a build with
\* the crate's large-dates feature.
MaxYear == IF large_dates THEN 999999 ELSE 9999

is_leap_year(year) == year % 4 = 0 /\ (year % 25 # 0 \/ year % 16 = 0)

days_in_year_month(year, month) ==
    IF month \in {1, 3, 5, 7, 8, 10, 12} THEN 31
    ELSE IF month \in {4, 6, 9, 11} THEN 30
    ELSE IF is_leap_year(year) THEN 29 ELSE 28

\* Days of the year before the first of `month`.
RECURSIVE DaysBefore(_, _)
DaysBefore(year, month) ==
    IF month = 1 THEN 0
    ELSE DaysBefore(year, month - 1) + days_in_year_month(year, month - 1)

\* time::Month::try_from(u8)
MonthTryFrom(value) ==
    IF value \in 1..12 THEN Ok(value)
    ELSE Err(ComponentRange("month", 1, 12, value, FALSE))

\* time::Date::from_calendar_date: the year is checked, then the day against
\* the month's length; the date is stored as (year, ordinal day).
from_calendar_date(year, month, day) ==
    IF year < -MaxYear \/ year > MaxYear
    THEN Err(ComponentRange("year", -MaxYear, MaxYear, year, FALSE))
    ELSE IF day < 1 \/ day > days_in_year_month(year, month)
    THEN Err(ComponentRange("day", 1, days_in_year_month(year, month), day, TRUE))
    ELSE Ok([year |-> year, ordinal |-> DaysBefore(year, month) + day])

\* time::Time::from_hms_nano / from_hms: each field is checked in turn.
from_hms_nano(hour, minute, second, nanosecond) ==
    IF hour > 23 THEN Err(ComponentRange("hour", 0, 23, hour, FALSE))
    ELSE IF minute > 59 THEN Err(ComponentRange("minute", 0, 59, minute, FALSE))
    ELSE IF second > 59 THEN Err(ComponentRange("second", 0, 59, second, FALSE))
    ELSE IF nanosecond > 999999999
    THEN Err(ComponentRange("nanosecond", 0, 999999999, nanosecond, FALSE))
    ELSE Ok([hour |-> hour, minute |-> minute, second |-> second,
             nanosecond |-> nanosecond])

from_hms(hour, minute, second) == from_hms_nano(hour, minute, second, 0)

\* time::PrimitiveDateTime::new
PrimitiveDateTimeNew(date, time) == [date |-> date, time |-> time]

(***************************************************************************)
(* Calendar conversions of the source.                                     *)
(***************************************************************************)
\* DateTryConvert with the month and day arguments exchanged.
DateTryConvertSwapped(self) ==
    LET month == MonthTryFrom(AsU8(self.day)) IN
    IF ~month.ok THEN Err(month.err)
    ELSE from_calendar_date(AsI32(self.year), month.val, AsU8(self.month))

\* impl TryConvert<time::Date> for Date
DateTryConvert(self) ==
    LET month == MonthTryFrom(AsU8(self.month)) IN
    IF ~month.ok THEN Err(month.err)
    ELSE from_calendar_date(AsI32(self.year), month.val, AsU8(self.day))

\* impl TryConvert<time::Time> for Time
TimeTryConvert(self) ==
    from_hms(AsU8(self.hour), AsU8(self.minute), AsU8(self.second))

\* impl TryConvert<time::Time> for (Time, u32)
TimeNanoTryConvert(time, nanosecond) ==
    from_hms_nano(AsU8(time.hour), AsU8(time.minute), AsU8(time.second),
                  nanosecond)

\* TimestampTryConvertTuple with the fraction dropped.
TimestampTryConvertTupleNoFraction(self) ==
    LET date == DateTryConvert([year |-> self.year, month |-> self.month,
                                day |-> self.day])
        converted == TimeTryConvert([hour |-> self.hour,
                                     minute |-> self.minute,
                                     second |-> self.second])
    IN  IF ~date.ok THEN Err(date.err)
        ELSE IF ~converted.ok THEN Err(converted.err)
        ELSE Ok(<<date.val, converted.val>>)

\* impl TryConvert<(time::Date, time::Time)> for Timestamp
TimestampTryConvertTuple(self) ==
    LET date == DateTryConvert([year |-> self.year, month |-> self.month,
                                day |-> self.day])
        time == [hour |-> self.hour, minute |-> self.minute,
                 second |-> self.second]
        nanosecond == self.fraction
        converted == TimeNanoTryConvert(time, nanosecond)
    IN  IF ~date.ok THEN Err(date.err)
        ELSE IF ~converted.ok THEN Err(converted.err)
        ELSE Ok(<<date.val, converted.val>>)

\* impl TryConvert<time::PrimitiveDateTime> for Timestamp
TimestampTryConvert(self) ==
    LET pair == TimestampTryConvertTuple(self) IN
    IF ~pair.ok THEN Err(pair.err)
    ELSE Ok(PrimitiveDateTimeNew(pair.val[1], pair.val[2]))

(***************************************************************************)
(* Inputs of the calendar conversions: the driver's structs, with fields   *)
(* drawn from the edges of the calendar ranges and of the 16-bit fields.   *)
(***************************************************************************)
Years == {-9999, -1, 0, 1, 4, 100, 400, 1600, 1900, 2000, 2020, 2021, 2022,
          2024, 2100, 9999, 10000, 32767}
Months == (0..13) \cup {255, 256, 257, 258, 268, 269, 65535}
Days == (0..32) \cup {255, 256, 257, 284, 285, 286, 287, 288, 65535}
Hours == {0, 3, 19, 23, 24, 255, 256, 279, 280, 65535}
Minutes == {0, 1, 31, 59, 60, 255, 256, 315, 316, 65535}
Nanoseconds == {0, 1, 999999999, 1000000000, 2147483647}

DateStructs == [year : Years, month : Months, day : Days]
TimeStructs == [hour : Hours, minute : Minutes, second : Minutes]
TimestampStructs ==
    [year : {2020, 2021, 10000}, month : {2, 12, 13, 258},
     day : {29, 30, 31, 285}, hour : {23, 24, 256}, minute : {59, 60},
     second : {59, 316}, fraction : {999999999, 1000000000}]

(***************************************************************************)
(* The column metadata resolver.                                           *)
(***************************************************************************)
\* odbc_api::DataType values a statement can report (tag, precision, scale).
DataTypes ==
    [tag : {"Unknown", "Other", "Integer", "SmallInt", "Real", "Double",
            "Date", "Bit", "TinyInt", "BigInt", "Timestamp", "Varchar",
            "WVarchar", "Varbinary"},
     precision : {0}, scale : {0}]
    \cup [tag : {"Numeric", "Decimal"}, precision : {2, 9, 18, 19},
          scale : {0, 2}]
    \cup [tag : {"Float"}, precision : {24, 53}, scale : {0}]
    \cup [tag : {"Time"}, precision : {0, 3}, scale : {0}]

\* odbc_api::buffers::BufferKind::from_data_type, the crate's storage-kind
\* table; the sizes of text and binary buffers are left out.
from_data_type(data_type) ==
    LET tag == data_type.tag
        small == data_type.scale = 0
    IN  CASE tag \in {"Unknown", "Other"} -> None
          [] tag \in {"Numeric", "Decimal"} /\ small /\ data_type.precision < 3
                -> Some("I8")
          [] tag \in {"Numeric", "Decimal"} /\ small
                /\ data_type.precision \in 3..9 -> Some("I32")
          [] tag \in {"Numeric", "Decimal"} /\ small
                /\ data_type.precision \in 10..18 -> Some("I64")
          [] tag = "Integer" -> Some("I32")
          [] tag = "SmallInt" -> Some("I16")
          [] tag = "Real" \/ (tag = "Float" /\ data_type.precision <= 24)
                -> Some("F32")
          [] tag = "Double" \/ (tag = "Float" /\ data_type.precision > 24)
                -> Some("F64")
          [] tag = "Date" -> Some("Date")
          [] tag = "Time" /\ data_type.precision = 0 -> Some("Time")
          [] tag = "Bit" -> Some("Bit")
          [] tag = "TinyInt" -> Some("I8")
          [] tag = "BigInt" -> Some("I64")
          [] tag = "Timestamp" -> Some("Timestamp")
          [] tag = "Varbinary" -> Some("Binary")
          [] OTHER -> Some("Text")

OdbcColumns == [name : {"a", "b"}, data_type : DataTypes, nullable : BOOLEAN]

\* BufferDescriptionTryFrom with the nullable flag not copied.
BufferDescriptionTryFromAlwaysNullable(c) ==
    LET kind == from_data_type(c.data_type) IN
    IF IsSome(kind)
    THEN Ok([nullable |-> TRUE, kind |-> Unwrap(kind)])
    ELSE Err([message |-> "covert DataType to BufferKind error",
              data_type |-> c.data_type])

\* impl TryFrom<&OdbcColumn> for BufferDescription
BufferDescriptionTryFrom(c) ==
    LET kind == from_data_type(c.data_type) IN
    IF IsSome(kind)
    THEN Ok([nullable |-> c.nullable, kind |-> Unwrap(kind)])
    ELSE Err([message |-> "covert DataType to BufferKind error",
              data_type |-> c.data_type])

(***************************************************************************)
(* The buffer materializer.                                                *)
(***************************************************************************)
NULL_DATA == -1
REPLACEMENT_CHARACTER == 65533

FixedKinds == {"Date", "Time", "Timestamp", "F64", "F32", "I8", "I16", "I32",
               "I64", "U8", "Bit"}
NullableKinds == {"NullableDate", "NullableTime", "NullableTimestamp",
                  "NullableF64", "NullableF32", "NullableI8", "NullableI16",
                  "NullableI32", "NullableI64", "NullableU8", "NullableBit"}
ViewKinds == {"Text", "WText", "Binary"} \cup FixedKinds \cup NullableKinds

\* ItemTag with the NullableI16 arm building the I32 variant.
ItemTagCopiedArm(kind) ==
    CASE kind \in {"Text", "WText", "Binary"} \cup FixedKinds -> kind
      [] kind = "NullableDate" -> "Date"
      [] kind = "NullableTime" -> "Time"
      [] kind = "NullableTimestamp" -> "Timestamp"
      [] kind = "NullableF64" -> "F64"
      [] kind = "NullableF32" -> "F32"
      [] kind = "NullableI8" -> "I8"
      [] kind \in {"NullableI16", "NullableI32"} -> "I32"
      [] kind = "NullableI64" -> "I64"
      [] kind = "NullableU8" -> "U8"
      [] kind = "NullableBit" -> "Bit"

\* The OdbcColumnItem variant each arm of convert constructs.
ItemTag(kind) ==
    CASE kind = "Text" -> "Text"
      [] kind = "WText" -> "WText"
      [] kind = "Binary" -> "Binary"
      [] kind = "Date" -> "Date"
      [] kind = "Timestamp" -> "Timestamp"
      [] kind = "Time" -> "Time"
      [] kind = "I32" -> "I32"
      [] kind = "Bit" -> "Bit"
      [] kind = "F64" -> "F64"
      [] kind = "F32" -> "F32"
      [] kind = "I8" -> "I8"
      [] kind = "I16" -> "I16"
      [] kind = "I64" -> "I64"
      [] kind = "U8" -> "U8"
      [] kind = "NullableDate" -> "Date"
      [] kind = "NullableTime" -> "Time"
      [] kind = "NullableTimestamp" -> "Timestamp"
      [] kind = "NullableF64" -> "F64"
      [] kind = "NullableF32" -> "F32"
      [] kind = "NullableI8" -> "I8"
      [] kind = "NullableI16" -> "I16"
      [] kind = "NullableI32" -> "I32"
      [] kind = "NullableI64" -> "I64"
      [] kind = "NullableU8" -> "U8"
      [] kind = "NullableBit" -> "Bit"

Item(kind, payload) == [tag |-> ItemTag(kind), payload |-> payload]

\* Push that puts the new item first.
PushFront(vec, item) == <<item>> \o vec

\* Vec::push, and the in-order collect() of the nullable arms.
Push(vec, item) == Append(vec, item)

\* IndicatorPresent that takes only a positive length for a value.
IndicatorPositive(indicator) == indicator > 0

\* The test `indicators[index] != NULL_DATA` of the nullable arms.
IndicatorPresent(indicator) == indicator # NULL_DATA

\* odbc_api::Bit::as_bool: 0 is false, 1 is true, any other byte panics.
as_bool(bit) ==
    IF bit = 0 THEN Ok(FALSE)
    ELSE IF bit = 1 THEN Ok(TRUE)
    ELSE Err("Invalid boolean representation in Bit.")

\* core::str::utf8_char_width on a lead byte.
utf8_char_width(b) ==
    IF b < 128 THEN 1
    ELSE IF b \in 194..223 THEN 2
    ELSE IF b \in 224..239 THEN 3
    ELSE IF b \in 240..244 THEN 4
    ELSE 0

safe_get(bytes, i) == IF i <= Len(bytes) THEN bytes[i] ELSE 0
IsContinuation(b) == b \in 128..191

\* One step of the Utf8Chunks scan behind String::from_utf8_lossy: the
\* character at i, or the maximal invalid prefix at i, and where the scan
\* goes on.
Utf8Step(bytes, i) ==
    LET b1 == bytes[i]
        b2 == safe_get(bytes, i + 1)
        b3 == safe_get(bytes, i + 2)
        b4 == safe_get(bytes, i + 3)
        w == utf8_char_width(b1)
        Valid(n, c) == [valid |-> TRUE, next |-> n, char |-> c]
        Invalid(n) == [valid |-> FALSE, next |-> n,
                       char |-> REPLACEMENT_CHARACTER]
        second3 == \/ b1 = 224 /\ b2 \in 160..191
                   \/ b1 \in 225..236 /\ b2 \in 128..191
                   \/ b1 = 237 /\ b2 \in 128..159
                   \/ b1 \in 238..239 /\ b2 \in 128..191
        second4 == \/ b1 = 240 /\ b2 \in 144..191
                   \/ b1 \in 241..243 /\ b2 \in 128..191
                   \/ b1 = 244 /\ b2 \in 128..143
    IN  CASE w = 1 -> Valid(i + 1, b1)
          [] w = 2 -> IF IsContinuation(b2)
                      THEN Valid(i + 2, (b1 - 192) * 64 + (b2 - 128))
                      ELSE Invalid(i + 1)
          [] w = 3 -> IF ~second3 THEN Invalid(i + 1)
                      ELSE IF ~IsContinuation(b3) THEN Invalid(i + 2)
                      ELSE Valid(i + 3, (b1 - 224) * 4096 + (b2 - 128) * 64
                                          + (b3 - 128))
          [] w = 4 -> IF ~second4 THEN Invalid(i + 1)
                      ELSE IF ~IsContinuation(b3) THEN Invalid(i + 2)
                      ELSE IF ~IsContinuation(b4) THEN Invalid(i + 3)
                      ELSE Valid(i + 4, (b1 - 240) * 262144 + (b2 - 128) * 4096
                                          + (b3 - 128) * 64 + (b4 - 128))
          [] OTHER -> Invalid(i + 1)

RECURSIVE Utf8LossyFrom(_, _)
Utf8LossyFrom(bytes, i) ==
    IF i > Len(bytes) THEN <<>>
    ELSE LET step == Utf8Step(bytes, i)
         IN  <<step.char>> \o Utf8LossyFrom(bytes, step.next)

\* String::from_utf8_lossy, as the sequence of the string's characters.
from_utf8_lossy(bytes) == Utf8LossyFrom(bytes, 1)

IsSurrogate(u) == u \in 55296..57343
IsLowSurrogate(u) == u \in 56320..57343

\* std::char::decode_utf16: one Ok(char) or Err(unit) per decoded item.
RECURSIVE decode_utf16(_)
decode_utf16(units) ==
    IF units = <<>> THEN <<>>
    ELSE LET u == Head(units) IN
         IF ~IsSurrogate(u) THEN <<Ok(u)>> \o decode_utf16(Tail(units))
         ELSE IF IsLowSurrogate(u) THEN <<Err(u)>> \o decode_utf16(Tail(units))
         ELSE IF Len(units) = 1 THEN <<Err(u)>>
         ELSE LET u2 == units[2] IN
              IF ~IsLowSurrogate(u2)
              THEN <<Err(u)>> \o decode_utf16(Tail(units))
              ELSE <<Ok(65536 + (u - 55296) * 1024 + (u2 - 56320))>>
                       \o decode_utf16(Tail(Tail(units)))

\* WTextString with unwrap_or(REPLACEMENT_CHARACTER) in place of unwrap.
WTextStringLossy(utf16) ==
    LET decoded == decode_utf16(utf16) IN
    Ok([k \in 1..Len(decoded) |->
           IF decoded[k].ok THEN decoded[k].val ELSE REPLACEMENT_CHARACTER])

\* The inner loop of the WText arm: every decoded item is unwrapped and
\* pushed to the string; the first Err panics.
WTextString(utf16) ==
    LET decoded == decode_utf16(utf16) IN
    IF \E k \in 1..Len(decoded) : ~decoded[k].ok
    THEN Err("called Result::unwrap() on an Err value")
    ELSE Ok([k \in 1..Len(decoded) |-> decoded[k].val])

(***************************************************************************)
(* Column views: the rows of the variable-length views are Option<slice>,  *)
(* the fixed-width views hold a value per row, the nullable ones a value   *)
(* and an indicator per row (raw_values, of equal length).                 *)
(***************************************************************************)
MaxRows == 3

TextRows == {None, Some(<<104>>), Some(<<104, 195, 169>>), Some(<<104, 255>>)}
WTextRows == {None, Some(<<104>>), Some(<<55357, 56832>>), Some(<<55296>>),
              Some(<<104, 56320>>)}
BinaryRows == {None, Some(<<>>), Some(<<0, 255>>)}
Indicators == {NULL_DATA, 0, 4}

FixedValues(kind) ==
    CASE kind \in {"Date", "NullableDate"} ->
            {[year |-> 2020, month |-> 2, day |-> 29],
             [year |-> 0, month |-> 0, day |-> 0]}
      [] kind \in {"Time", "NullableTime"} ->
            {[hour |-> 23, minute |-> 59, second |-> 59],
             [hour |-> 0, minute |-> 0, second |-> 0]}
      [] kind \in {"Timestamp", "NullableTimestamp"} ->
            {[year |-> 2020, month |-> 2, day |-> 29, hour |-> 23,
              minute |-> 59, second |-> 59, fraction |-> 999999999],
             [year |-> 0, month |-> 0, day |-> 0, hour |-> 0, minute |-> 0,
              second |-> 0, fraction |-> 0]}
      [] kind \in {"F64", "NullableF64", "F32", "NullableF32"} ->
            {"1.5", "NaN"}
      [] kind \in {"I8", "NullableI8"} -> {-128, 127}
      [] kind \in {"I16", "NullableI16"} -> {-32768, 32767}
      [] kind \in {"I32", "NullableI32", "I64", "NullableI64"} ->
            {-2147483647, 2147483647}
      [] kind \in {"U8", "NullableU8"} -> {0, 255}
      [] kind \in {"Bit", "NullableBit"} -> {0, 1, 2}

Rows(S) == UNION {[1..n -> S] : n \in 0..MaxRows}

VarViews(kind, S) ==
    {[kind |-> kind, values |-> v, indicators |-> <<>>] : v \in Rows(S)}

FixedViews(kind) == VarViews(kind, FixedValues(kind))

NullableViews(kind) ==
    UNION {{[kind |-> kind, values |-> v, indicators |-> ind] :
               v \in [1..n -> FixedValues(kind)], ind \in [1..n -> Indicators]} :
           n \in 0..MaxRows}

Views ==
    VarViews("Text", TextRows) \cup VarViews("WText", WTextRows)
    \cup VarViews("Binary", BinaryRows)
    \cup UNION {FixedViews(k) : k \in FixedKinds}
    \cup UNION {NullableViews(k) : k \in NullableKinds}

NoArg == <<>>
NoResult == [ok |-> FALSE, err |-> "not called"]

Init ==
    /\ pc = "idle"
    /\ op = "none"
    /\ arg = NoArg
    /\ result = NoResult
    /\ buffer = <<>>
    /\ idx = 0
    /\ large_dates \in BOOLEAN

Finish(name, input, output) ==
    /\ pc' = "done"
    /\ op' = name
    /\ arg' = input
    /\ result' = output
    /\ UNCHANGED <<buffer, idx, large_dates>>

ToDate ==
    /\ pc = "idle"
    /\ \E d \in DateStructs : Finish("to_date", d, DateTryConvert(d))

ToTime ==
    /\ pc = "idle"
    /\ \E t \in TimeStructs : Finish("to_time", t, TimeTryConvert(t))

ToTimeNano ==
    /\ pc = "idle"
    /\ \E t \in TimeStructs, n \in Nanoseconds :
           Finish("to_time_nano", <<t, n>>, TimeNanoTryConvert(t, n))

ToDateAndTime ==
    /\ pc = "idle"
    /\ \E ts \in TimestampStructs :
           Finish("to_date_time_pair", ts, TimestampTryConvertTuple(ts))

ToDateTime ==
    /\ pc = "idle"
    /\ \E ts \in TimestampStructs :
           Finish("to_datetime", ts, TimestampTryConvert(ts))

\* BufferDescription::try_from(&column) is called on a column descriptor.
ResolveCall ==
    /\ pc = "idle"
    /\ \E c \in OdbcColumns :
           /\ pc' = "resolving"
           /\ op' = "resolve_layout"
           /\ arg' = c
           /\ UNCHANGED <<result, buffer, idx, large_dates>>

\* try_from returns; the descriptor is behind a shared reference.
ResolveReturn ==
    /\ pc = "resolving"
    /\ pc' = "done"
    /\ result' = BufferDescriptionTryFrom(arg)
    /\ UNCHANGED <<op, arg, buffer, idx, large_dates>>

\* convert(self): the match on the view starts with an empty output vector.
ConvertCall ==
    /\ pc = "idle"
    /\ \E view \in Views :
           /\ pc' = "convert"
           /\ op' = "convert"
           /\ arg' = view
           /\ buffer' = <<>>
           /\ idx' = 1
           /\ UNCHANGED <<result, large_dates>>

InLoop(kinds) ==
    pc = "convert" /\ arg.kind \in kinds /\ idx <= Len(arg.values)

PushItem(payload) ==
    /\ buffer' = Push(buffer, Item(arg.kind, payload))
    /\ idx' = idx + 1
    /\ UNCHANGED <<pc, op, arg, result, large_dates>>

\* A panic unwinds out of convert: the output vector is dropped and nothing
\* is returned.
Panic ==
    /\ pc' = "panicked"
    /\ buffer' = <<>>
    /\ UNCHANGED <<op, arg, result, idx, large_dates>>

\* AnyColumnView::Text arm, one row.
ConvertText ==
    /\ InLoop({"Text"})
    /\ LET v == arg.values[idx] IN
       IF IsSome(v) THEN PushItem(Some(from_utf8_lossy(Unwrap(v))))
       ELSE PushItem(None)

\* AnyColumnView::WText arm, one row whose code units all decode.
ConvertWText ==
    /\ InLoop({"WText"})
    /\ LET value == arg.values[idx] IN
       IF IsSome(value)
       THEN /\ WTextString(Unwrap(value)).ok
            /\ PushItem(Some(WTextString(Unwrap(value)).val))
       ELSE PushItem(None)

\* AnyColumnView::WText arm, a row on which c.unwrap() panics.
ConvertWTextPanic ==
    /\ InLoop({"WText"})
    /\ IsSome(arg.values[idx])
    /\ ~WTextString(Unwrap(arg.values[idx])).ok
    /\ Panic

\* AnyColumnView::Binary arm, one row.
ConvertBinary ==
    /\ InLoop({"Binary"})
    /\ LET value == arg.values[idx] IN
       IF IsSome(value) THEN PushItem(Some(Unwrap(value)))
       ELSE PushItem(None)

\* The arms Date, Timestamp, Time, I32, F64, F32, I8, I16, I64 and U8.
ConvertFixed ==
    /\ InLoop(FixedKinds \ {"Bit"})
    /\ PushItem(Some(arg.values[idx]))

\* AnyColumnView::Bit arm, one row.
ConvertBit ==
    /\ InLoop({"Bit"})
    /\ as_bool(arg.values[idx]).ok
    /\ PushItem(Some(as_bool(arg.values[idx]).val))

ConvertBitPanic ==
    /\ InLoop({"Bit"})
    /\ ~as_bool(arg.values[idx]).ok
    /\ Panic

\* The arms NullableDate .. NullableU8, one (index, value) of the map.
ConvertNullable ==
    /\ InLoop(NullableKinds \ {"NullableBit"})
    /\ IF IndicatorPresent(arg.indicators[idx])
       THEN PushItem(Some(arg.values[idx]))
       ELSE PushItem(None)

\* AnyColumnView::NullableBit arm, one (index, value) of the map.
ConvertNullableBit ==
    /\ InLoop({"NullableBit"})
    /\ IF IndicatorPresent(arg.indicators[idx])
       THEN /\ as_bool(arg.values[idx]).ok
            /\ PushItem(Some(as_bool(arg.values[idx]).val))
       ELSE PushItem(None)

ConvertNullableBitPanic ==
    /\ InLoop({"NullableBit"})
    /\ IndicatorPresent(arg.indicators[idx])
    /\ ~as_bool(arg.values[idx]).ok
    /\ Panic

\* `return buffer` / collect(): the loop is over, the vector is returned.
ConvertReturn ==
    /\ pc = "convert"
    /\ idx > Len(arg.values)
    /\ pc' = "done"
    /\ result' = Ok(buffer)
    /\ UNCHANGED <<op, arg, buffer, idx, large_dates>>

Next ==
    \/ ResolveCall
    \/ ResolveReturn
    \/ ToDate
    \/ ToTime
    \/ ToTimeNano
    \/ ToDateAndTime
    \/ ToDateTime
    \/ ConvertCall
    \/ ConvertText
    \/ ConvertWText
    \/ ConvertWTextPanic
    \/ ConvertBinary
    \/ ConvertFixed
    \/ ConvertBit
    \/ ConvertBitPanic
    \/ ConvertNullable
    \/ ConvertNullableBit
    \/ ConvertNullableBitPanic
    \/ ConvertReturn

Spec == Init /\ [][Next]_vars

(***************************************************************************)
(* The Gregorian calendar, stated apart from the crate's arithmetic, and   *)
(* the reading of a stored date back into year, month and day.             *)
(***************************************************************************)
GregorianLeap(y) == y % 4 = 0 /\ (y % 100 # 0 \/ y % 400 = 0)

MonthLength(y, m) ==
    CASE m = 2 -> IF GregorianLeap(y) THEN 29 ELSE 28
      [] m \in {4, 6, 9, 11} -> 30
      [] OTHER -> 31

ValidMonth(m) == m \in 1..12
ValidDay(y, m, d) == ValidMonth(m) /\ d \in 1..MonthLength(y, m)

RECURSIVE OrdinalOf(_, _, _)
OrdinalOf(y, m, d) ==
    IF m = 1 THEN d ELSE MonthLength(y, m - 1) + OrdinalOf(y, m - 1, d)

\* The calendar dates a stored (year, ordinal) value stands for.
CalendarDatesOf(date) ==
    {ymd \in {date.year} \X (1..12) \X (1..31) :
        /\ ymd[3] <= MonthLength(ymd[1], ymd[2])
        /\ OrdinalOf(ymd[1], ymd[2], ymd[3]) = date.ordinal}

Called(name) == pc = "done" /\ op = name

\* C1: to_date returns an error whenever month is outside 1..12 or day is
\* not a valid day of that month and year, for every value the 16-bit
\* fields can hold; no out-of-range value is corrected into a valid date.
C1_InvalidDateRejected ==
    Called("to_date") /\ ~ValidDay(arg.year, arg.month, arg.day)
        => ~result.ok

\* C2: to_time, with and without nanosecond, returns an error whenever
\* hour is outside 0..23, minute or second outside 0..59, or nanosecond
\* outside 0..999,999,999; (23,59,59) succeeds and (24,0,0) fails.
ValidTime(t) == t.hour \in 0..23 /\ t.minute \in 0..59 /\ t.second \in 0..59

C2_InvalidTimeRejected ==
    /\ Called("to_time") => (result.ok => ValidTime(arg))
    /\ Called("to_time_nano") =>
          (result.ok => ValidTime(arg[1]) /\ arg[2] \in 0..999999999)
    /\ Called("to_time") /\ arg = [hour |-> 23, minute |-> 59, second |-> 59]
          => result.ok
    /\ Called("to_time") /\ arg = [hour |-> 24, minute |-> 0, second |-> 0]
          => ~result.ok

\* C4: whenever to_date or to_time fails, the error names the field that
\* is out of range and carries the value the driver struct held in it.
FieldValue(input, name) ==
    CASE name = "year" -> input.year
      [] name = "month" -> input.month
      [] name = "day" -> input.day
      [] name = "hour" -> input.hour
      [] name = "minute" -> input.minute
      [] name = "second" -> input.second

C4_ErrorCarriesOffendingValue ==
    /\ Called("to_date") /\ ~result.ok =>
          result.err.value = FieldValue(arg, result.err.name)
    /\ Called("to_time") /\ ~result.ok =>
          result.err.value = FieldValue(arg, result.err.name)
    /\ Called("to_time_nano") /\ ~result.ok =>
          result.err.value = IF result.err.name = "nanosecond" THEN arg[2]
                             ELSE FieldValue(arg[1], result.err.name)

\* C6: to_datetime succeeds exactly when to_date on (year, month, day) and
\* to_time on (hour, minute, second) with the fraction as nanosecond both
\* succeed; on success the result combines exactly those two results.
DatePart(ts) == [year |-> ts.year, month |-> ts.month, day |-> ts.day]
TimePart(ts) == [hour |-> ts.hour, minute |-> ts.minute, second |-> ts.second]

C6_DateTimeIffBothParts ==
    LET date == DateTryConvert(DatePart(arg))
        time == TimeNanoTryConvert(TimePart(arg), arg.fraction)
    IN  /\ Called("to_datetime") =>
              /\ result.ok <=> (date.ok /\ time.ok)
              /\ result.ok => result.val = [date |-> date.val, time |-> time.val]
        /\ Called("to_date_time_pair") =>
              /\ result.ok <=> (date.ok /\ time.ok)
              /\ result.ok => result.val = <<date.val, time.val>>

C6_Witness ==
    /\ Called("to_datetime")
    /\ result.ok
    /\ arg.fraction = 999999999
    /\ result.val.time.nanosecond = 999999999
    /\ arg.day = 29

\* C9: for year in 1..9999, month in 1..12 and day in 1..31, to_date
\* succeeds if and only if day is at most the number of days of that month
\* in that year (February has 29 days exactly in Gregorian leap years), and
\* on success the date has the year, month and day of the input.
C9_DateValidity ==
    Called("to_date") /\ arg.year \in 1..9999 /\ arg.month \in 1..12
                      /\ arg.day \in 1..31
        => /\ result.ok <=> arg.day <= MonthLength(arg.year, arg.month)
           /\ result.ok =>
                 CalendarDatesOf(result.val) = {<<arg.year, arg.month, arg.day>>}

C9_Witness ==
    /\ Called("to_date")
    /\ arg = [year |-> 2020, month |-> 2, day |-> 29]
    /\ result.ok
    /\ CalendarDatesOf(result.val) = {<<2020, 2, 29>>}

\* C8: resolve_layout succeeds for every column whose type tag has a storage
\* kind, with the column's nullable flag and the mapped kind; for a tag
\* with no mapping it returns an error carrying that tag, whatever the
\* nullable flag; the column descriptor is left unchanged.
C8_Result ==
    Called("resolve_layout") =>
        LET kind == from_data_type(arg.data_type) IN
        /\ result.ok <=> IsSome(kind)
        /\ result.ok => /\ result.val.nullable = arg.nullable
                        /\ result.val.kind = Unwrap(kind)
        /\ ~result.ok => result.err.data_type = arg.data_type

C8_ResolveLayout ==
    /\ [](C8_Result)
    /\ [][pc = "resolving" => arg' = arg]_vars

C8_Witness ==
    /\ Called("resolve_layout")
    /\ arg.data_type.tag = "Other"
    /\ arg.nullable
    /\ ~result.ok
    /\ result.err.data_type.tag = "Other"

(***************************************************************************)
(* The materializer's claims.  Finished is the end of a convert call.      *)
(***************************************************************************)
Converting(kinds) == op = "convert" /\ arg.kind \in kinds
Finished == pc \in {"done", "panicked"}

TagPairs ==
    {<<"Text", "Text">>, <<"WText", "WText">>, <<"Binary", "Binary">>,
     <<"Date", "Date">>, <<"NullableDate", "Date">>,
     <<"Time", "Time">>, <<"NullableTime", "Time">>,
     <<"Timestamp", "Timestamp">>, <<"NullableTimestamp", "Timestamp">>,
     <<"F64", "F64">>, <<"NullableF64", "F64">>,
     <<"F32", "F32">>, <<"NullableF32", "F32">>,
     <<"I8", "I8">>, <<"NullableI8", "I8">>,
     <<"I16", "I16">>, <<"NullableI16", "I16">>,
     <<"I32", "I32">>, <<"NullableI32", "I32">>,
     <<"I64", "I64">>, <<"NullableI64", "I64">>,
     <<"U8", "U8">>, <<"NullableU8", "U8">>,
     <<"Bit", "Bit">>, <<"NullableBit", "Bit">>}

ExpectedTag(kind) == CHOOSE tag \in ViewKinds : <<kind, tag>> \in TagPairs

NullCell(kind) == [tag |-> ExpectedTag(kind), payload |-> None]
PresentCell(kind, value) == [tag |-> ExpectedTag(kind), payload |-> Some(value)]

InvalidBitRow(view, i) ==
    /\ view.kind = "NullableBit"
    /\ view.indicators[i] # NULL_DATA
    /\ view.values[i] \notin {0, 1}

IsHigh(u) == u \in 55296..56319
IsLow(u) == u \in 56320..57343

WellFormedUtf16(units) ==
    \A i \in 1..Len(units) :
        /\ IsHigh(units[i]) => i < Len(units) /\ IsLow(units[i + 1])
        /\ IsLow(units[i]) => i > 1 /\ IsHigh(units[i - 1])

Malformed(view) ==
    \E i \in 1..Len(view.values) :
        IsSome(view.values[i]) /\ ~WellFormedUtf16(Unwrap(view.values[i]))

C5_WideTextDecodeFailure ==
    Converting({"WText"}) =>
        /\ Malformed(arg) => pc # "done" /\ result = NoResult
        /\ pc = "panicked" => Malformed(arg) /\ buffer = <<>>
        /\ pc = "convert" => ENABLED Next
        /\ pc = "convert" /\ idx > Len(arg.values) => ~Malformed(arg)
        /\ pc = "done" => /\ result.ok
                          /\ Len(result.val) = Len(arg.values)

C5_Witness ==
    /\ Converting({"WText"})
    /\ pc = "panicked"
    /\ idx = 3
    /\ arg.values[1] = Some(<<104>>)
    /\ arg.values[2] = None
    /\ arg.values[3] = Some(<<104, 56320>>)
    /\ result = NoResult
    /\ buffer = <<>>

\* C7: when materialization succeeds the output has exactly as many cells
\* as the buffer has rows, and cell i is derived from row i alone: rows are
\* never reordered, dropped, duplicated or merged, for any pattern of
\* present and absent rows.
RowPresent(view, i) ==
    CASE view.kind \in {"Text", "WText", "Binary"} -> IsSome(view.values[i])
      [] view.kind \in FixedKinds -> TRUE
      [] view.kind \in NullableKinds -> view.indicators[i] # NULL_DATA

RowPayload(view, i) ==
    CASE view.kind = "Text" -> from_utf8_lossy(Unwrap(view.values[i]))
      [] view.kind = "WText" ->
            LET decoded == decode_utf16(Unwrap(view.values[i]))
            IN  [k \in 1..Len(decoded) |-> decoded[k].val]
      [] view.kind = "Binary" -> Unwrap(view.values[i])
      [] view.kind \in {"Bit", "NullableBit"} -> view.values[i] = 1
      [] OTHER -> view.values[i]

C7_OrderPreserved ==
    Converting(ViewKinds) /\ pc = "done" =>
        /\ Len(result.val) = Len(arg.values)
        /\ \A i \in 1..Len(arg.values) :
              result.val[i].payload =
                  IF RowPresent(arg, i) THEN Some(RowPayload(arg, i)) ELSE None

C7_Witness ==
    /\ Converting({"NullableI32"})
    /\ pc = "done"
    /\ arg.indicators = <<4, NULL_DATA, 0>>
    /\ arg.values[1] = -2147483647
    /\ arg.values[3] = 2147483647
    /\ result.val[1].payload = Some(-2147483647)
    /\ result.val[2].payload = None
    /\ result.val[3].payload = Some(2147483647)

\* C10: in the output of one materialize call every cell carries the same
\* variant tag, the one matching the buffer's storage kind, for each of the
\* 25 buffer variants; only the presence of the payload differs.
C10_UniformTag ==
    Converting(ViewKinds) =>
        /\ \A i \in 1..Len(buffer) : buffer[i].tag = ExpectedTag(arg.kind)
        /\ pc = "done" =>
              \A i \in 1..Len(result.val) :
                  result.val[i].tag = ExpectedTag(arg.kind)

C10_Witness ==
    /\ Converting({"NullableI16"})
    /\ pc = "done"
    /\ Len(result.val) = 3
    /\ \E i, j \in 1..3 : /\ result.val[i].payload = None
                          /\ result.val[j].payload = Some(32767)
    /\ \A i \in 1..3 : result.val[i].tag = "I16"

====
